---- MODULE Spec2Model ----
(***************************************************************************)
(* A model of werdl/gitrs (src/src/core.rs): the Git command runner, its   *)
(* two execution modes (run: captured, stream: inherited), the Outcome     *)
(* type Result<Success, Failure> with its IsFailure accessors, and the     *)
(* blanket Run trait (direct run from any IntoIterator of ToString items). *)
(*                                                                         *)
(* Encoding of Rust values:                                                *)
(*   String            a sequence of Unicode scalar values (integers)      *)
(*   Vec<u8>           a sequence of bytes (integers 0..255)               *)
(*   Option<T>         <<>> for None, <<x>> for Some(x)                    *)
(*   Result<T, E>      for from_utf8: <<x>> for Ok(x), <<>> for Err(_)     *)
(*   Result<Success, Failure>                                              *)
(*                     [tag |-> "Ok", stdout, code] or                     *)
(*                     [tag |-> "Err", stderr, stdout, code]               *)
(*   ExitStatus        the raw wait status of the child (an integer)       *)
(*   T::Item: ToString [t |-> "str", v |-> String] or [t |-> "int", v |-> i32] *)
(***************************************************************************)
EXTENDS Integers, Sequences, FiniteSets, TLC

VARIABLES
    git,      \* GitIds -> Option<Git>: the Git values the caller holds
    given,    \* GitIds -> Option<items>: what each Git::new was called with
    pc,       \* the caller: "idle", "running", "done", "panicked"
    cur,      \* Option<call>: the call in progress or last finished
    child,    \* Option<completion>: what the child did (status, bytes written)
    outcome,  \* Option<Result<Success, Failure>>: what the call returned
    spawned,  \* number of child processes spawned by the current call
    log       \* every invocation handed to the OS, in order

vars == <<git, given, pc, cur, child, outcome, spawned, log>>

\* ------------------------------------------------------------------ bounds

\* Number of run/stream calls the caller makes.
MaxCalls == 2

\* ------------------------------------------------------------------ inputs

GitIds == {"g1", "g2"}

Str(s) == [t |-> "str", v |-> s]
Int32(n) == [t |-> "int", v |-> n]

\* "log", "--shortstat", "log --shortstat" as scalar values.
TokLog == <<108, 111, 103>>
TokShortstat == <<45, 45, 115, 104, 111, 114, 116, 115, 116, 97, 116>>
PhraseLogShortstat == TokLog \o <<32>> \o TokShortstat

\* Argument lists a caller passes to Git::new.
ArgSamples ==
    { <<>>,
      <<Str(TokLog), Str(TokShortstat)>>,
      <<Str(PhraseLogShortstat)>>,
      <<Int32(-1), Int32(20)>> }

\* Values a caller runs directly through the Run trait.
DirectSamples ==
    { <<Str(TokLog), Str(TokShortstat)>>,
      <<Str(PhraseLogShortstat)>> }

\* Raw wait statuses of the child: exit 0, exit 2, killed by SIGKILL.
StatusSamples == {0, 2 * 256, 9}

\* Bytes the child writes to its standard output: "g", "é", an invalid byte.
OutSamples == { <<103>>, <<195, 169>>, <<255>> }

\* Bytes the child writes to its standard error: nothing, "e", a truncated
\* two-byte sequence.
ErrSamples == { <<>>, <<101>>, <<195>> }

\* ------------------------------------------------------- library semantics

\* Option::unwrap_or / Result::unwrap_or
unwrap_or(opt, default) == IF opt = <<>> THEN default ELSE opt[1]

\* ExitStatus::success: the raw wait status is 0.
success(status) == status = 0

\* ExitStatus::code: Some(WEXITSTATUS) when WIFEXITED, else None.
code_of(status) ==
    IF status % 128 = 0 THEN << (status \div 256) % 256 >> ELSE <<>>

\* String::from_utf8 on bytes taken from 0x00..0xDF and 0xF5..0xFF, where the
\* one- and two-byte forms decide validity: Ok(text) or Err.
RECURSIVE from_utf8(_)
from_utf8(bytes) ==
    IF bytes = <<>> THEN << <<>> >>
    ELSE LET b == Head(bytes) IN
         IF b < 128
         THEN LET rest == from_utf8(Tail(bytes)) IN
              IF rest = <<>> THEN <<>> ELSE << <<b>> \o rest[1] >>
         ELSE IF b >= 194 /\ b <= 223 /\ Len(bytes) >= 2
                 /\ bytes[2] >= 128 /\ bytes[2] <= 191
         THEN LET rest == from_utf8(Tail(Tail(bytes))) IN
              IF rest = <<>> THEN <<>>
              ELSE << <<(b - 192) * 64 + (bytes[2] - 128)>> \o rest[1] >>
         ELSE <<>>

\* i32::to_string: decimal digits, '-' first when negative.
RECURSIVE Digits(_)
Digits(n) ==
    IF n < 10 THEN <<48 + n>> ELSE Digits(n \div 10) \o <<48 + (n % 10)>>

\* ToString::to_string on an item: a string is copied, an integer is printed.
to_string(item) ==
    IF item.t = "str" THEN item.v
    ELSE IF item.v < 0 THEN <<45>> \o Digits(0 - item.v) ELSE Digits(item.v)

\* ------------------------------------------------------------- the program

\* Git::new: command = items.into_iter().map(|x| x.to_string()).collect()
Git_new(items) ==
    [command |-> [i \in 1 .. Len(items) |-> to_string(items[i])]]

\* A variant of BuildCommand that pushes each argument in front of the ones
\* already there.
RECURSIVE PushArgsFront(_, _)
PushArgsFront(out, arguments) ==
    IF arguments = <<>> THEN out
    ELSE PushArgsFront([out EXCEPT !.args = <<Head(arguments)>> \o @],
                       Tail(arguments))

BuildCommandReversed(self) ==
    PushArgsFront([program |-> "git", args |-> <<>>], self.command)

\* Command::new("git") followed by out.arg(argument) for each stored argument.
RECURSIVE PushArgs(_, _)
PushArgs(out, arguments) ==
    IF arguments = <<>> THEN out
    ELSE PushArgs([out EXCEPT !.args = Append(@, Head(arguments))],
                  Tail(arguments))

BuildCommand(self) == PushArgs([program |-> "git", args |-> <<>>], self.command)

\* The tokens of a phrase: maximal runs of non-space scalar values.
RECURSIVE SplitFrom(_, _)
SplitFrom(s, tok) ==
    IF s = <<>> THEN (IF tok = <<>> THEN <<>> ELSE <<tok>>)
    ELSE IF Head(s) = 32
         THEN (IF tok = <<>> THEN <<>> ELSE <<tok>>) \o SplitFrom(Tail(s), <<>>)
         ELSE SplitFrom(Tail(s), Append(tok, Head(s)))

SplitWhitespace(s) == SplitFrom(s, <<>>)

RECURSIVE SplitAll(_)
SplitAll(items) ==
    IF items = <<>> THEN <<>>
    ELSE SplitWhitespace(to_string(Head(items))) \o SplitAll(Tail(items))

\* A variant of TraitGit that splits every item on spaces.
TraitGitSplit(items) == [command |-> SplitAll(items)]

\* Run for T: Git::new(self.into_iter().map(|x| x.to_string()))
TraitGit(items) ==
    Git_new([i \in 1 .. Len(items) |-> Str(to_string(items[i]))])

\* A variant of stream_result that reports an empty captured standard output.
stream_result_captured(status) ==
    IF success(status)
    THEN [tag |-> "Ok", stdout |-> << <<>> >>,
          code |-> unwrap_or(code_of(status), 0)]
    ELSE [tag |-> "Err", stderr |-> <<>>, stdout |-> << <<>> >>,
          code |-> unwrap_or(code_of(status), 1)]

\* A variant of stream_result whose default code is 0 in both branches.
stream_result_default0(status) ==
    IF success(status)
    THEN [tag |-> "Ok", stdout |-> <<>>, code |-> unwrap_or(code_of(status), 0)]
    ELSE [tag |-> "Err", stderr |-> <<>>, stdout |-> <<>>,
          code |-> unwrap_or(code_of(status), 0)]

\* Git::stream after out.status(): nothing is captured.
stream_result(status) ==
    IF success(status)
    THEN [tag |-> "Ok", stdout |-> <<>>, code |-> unwrap_or(code_of(status), 0)]
    ELSE [tag |-> "Err", stderr |-> <<>>, stdout |-> <<>>,
          code |-> unwrap_or(code_of(status), 1)]

\* A variant of run_result that leaves stderr out of a Failure.
run_result_no_stderr(output) ==
    IF success(output.status)
    THEN [tag |-> "Ok",
          stdout |-> << unwrap_or(from_utf8(output.stdout), <<>>) >>,
          code |-> unwrap_or(code_of(output.status), 0)]
    ELSE [tag |-> "Err",
          stderr |-> <<>>,
          stdout |-> << unwrap_or(from_utf8(output.stdout), <<>>) >>,
          code |-> unwrap_or(code_of(output.status), 1)]

\* A variant of run_result whose default code is 0 in both branches.
run_result_default0(output) ==
    IF success(output.status)
    THEN [tag |-> "Ok",
          stdout |-> << unwrap_or(from_utf8(output.stdout), <<>>) >>,
          code |-> unwrap_or(code_of(output.status), 0)]
    ELSE [tag |-> "Err",
          stderr |-> << unwrap_or(from_utf8(output.stderr), <<>>) >>,
          stdout |-> << unwrap_or(from_utf8(output.stdout), <<>>) >>,
          code |-> unwrap_or(code_of(output.status), 0)]

\* A variant of run_result that treats undecodable standard output as a
\* failed command with nothing captured.
run_result_decode_fails(output) ==
    IF success(output.status) /\ from_utf8(output.stdout) # <<>>
    THEN [tag |-> "Ok",
          stdout |-> << from_utf8(output.stdout)[1] >>,
          code |-> unwrap_or(code_of(output.status), 0)]
    ELSE [tag |-> "Err",
          stderr |-> << unwrap_or(from_utf8(output.stderr), <<>>) >>,
          stdout |-> << unwrap_or(from_utf8(output.stdout), <<>>) >>,
          code |-> unwrap_or(code_of(output.status), 1)]

\* Git::run after out.output(): both streams captured and decoded.
run_result(output) ==
    IF success(output.status)
    THEN [tag |-> "Ok",
          stdout |-> << unwrap_or(from_utf8(output.stdout), <<>>) >>,
          code |-> unwrap_or(code_of(output.status), 0)]
    ELSE [tag |-> "Err",
          stderr |-> << unwrap_or(from_utf8(output.stderr), <<>>) >>,
          stdout |-> << unwrap_or(from_utf8(output.stdout), <<>>) >>,
          code |-> unwrap_or(code_of(output.status), 1)]

\* A variant of failed that tests is_ok.
failed_is_ok(o) == o.tag = "Ok"

\* IsFailure for Result<Success, Failure>
failed(o) == o.tag = "Err"
code(o) == IF o.tag = "Ok" THEN o.code ELSE o.code
stdout(o) == IF o.tag = "Ok" THEN o.stdout ELSE o.stdout
stderr(o) == IF o.tag = "Ok" THEN <<>> ELSE o.stderr

\* ------------------------------------------------------------------ actions

Init ==
    /\ git = [g \in GitIds |-> <<>>]
    /\ given = [g \in GitIds |-> <<>>]
    /\ pc = "idle"
    /\ cur = <<>>
    /\ child = <<>>
    /\ outcome = <<>>
    /\ spawned = 0
    /\ log = <<>>

\* The caller is between calls and may make another one.
CanCall == pc \in {"idle", "done"} /\ Len(log) < MaxCalls

\* let cmd = Git::new(items);
New(g, items) ==
    /\ pc \in {"idle", "done"}
    /\ git[g] = <<>>
    /\ git' = [git EXCEPT ![g] = << Git_new(items) >>]
    /\ given' = [given EXCEPT ![g] = << items >>]
    /\ UNCHANGED <<pc, cur, child, outcome, spawned, log>>

\* A variant of Launch that turns a spawn error into a Failure outcome.
LaunchRecover(entry, g, items, self, mode, launched) ==
    LET out == BuildCommand(self)
        call == [n |-> Len(log) + 1, entry |-> entry, g |-> g,
                 items |-> items, mode |-> mode,
                 program |-> out.program, args |-> out.args]
    IN /\ cur' = << call >>
       /\ log' = Append(log, call)
       /\ child' = <<>>
       /\ IF launched
          THEN pc' = "running" /\ spawned' = 1 /\ outcome' = <<>>
          ELSE /\ pc' = "done" /\ spawned' = 0
               /\ outcome' = << [tag |-> "Err", stderr |-> <<>>,
                                 stdout |-> <<>>, code |-> 1] >>
       /\ UNCHANGED <<git, given>>

\* The first half of run/stream: the Command is built and handed to the OS.
\* A spawn error makes expect() panic; otherwise the caller blocks on the child.
Launch(entry, g, items, self, mode, launched) ==
    LET out == BuildCommand(self)
        call == [n |-> Len(log) + 1, entry |-> entry, g |-> g,
                 items |-> items, mode |-> mode,
                 program |-> out.program, args |-> out.args]
    IN /\ cur' = << call >>
       /\ log' = Append(log, call)
       /\ child' = <<>>
       /\ outcome' = <<>>
       /\ IF launched
          THEN pc' = "running" /\ spawned' = 1
          ELSE pc' = "panicked" /\ spawned' = 0
       /\ UNCHANGED <<git, given>>

\* cmd.run()
GitRun(g) ==
    /\ CanCall
    /\ git[g] # <<>>
    /\ \E launched \in BOOLEAN :
          Launch("A", g, given[g][1], git[g][1], "run", launched)

\* cmd.stream()
GitStream(g) ==
    /\ CanCall
    /\ git[g] # <<>>
    /\ \E launched \in BOOLEAN :
          Launch("A", g, given[g][1], git[g][1], "stream", launched)

\* items.run()
TraitRun(items) ==
    /\ CanCall
    /\ \E launched \in BOOLEAN :
          Launch("B", "tmp", items, TraitGit(items), "run", launched)

\* items.stream()
TraitStream(items) ==
    /\ CanCall
    /\ \E launched \in BOOLEAN :
          Launch("B", "tmp", items, TraitGit(items), "stream", launched)

\* A variant of Complete that waits again on a finished call and rebuilds
\* the outcome.
CompleteAgain(status, out, err) ==
    /\ pc \in {"running", "done"}
    /\ cur # <<>>
    /\ LET output == [status |-> status, stdout |-> out, stderr |-> err] IN
       /\ child' = << output >>
       /\ outcome' = << IF cur[1].mode = "run"
                        THEN run_result(output)
                        ELSE stream_result(status) >>
    /\ pc' = "done"
    /\ UNCHANGED <<git, given, cur, spawned, log>>

\* The second half of run/stream: the child terminates and the Outcome is
\* built. In stream mode the bytes go to the inherited descriptors.
Complete(status, out, err) ==
    /\ pc = "running"
    /\ LET output == [status |-> status, stdout |-> out, stderr |-> err] IN
       /\ child' = << output >>
       /\ outcome' = << IF cur[1].mode = "run"
                        THEN run_result(output)
                        ELSE stream_result(status) >>
    /\ pc' = "done"
    /\ UNCHANGED <<git, given, cur, spawned, log>>

Next ==
    \/ \E g \in GitIds, items \in ArgSamples : New(g, items)
    \/ \E g \in GitIds : GitRun(g)
    \/ \E g \in GitIds : GitStream(g)
    \/ \E items \in DirectSamples : TraitRun(items)
    \/ \E items \in DirectSamples : TraitStream(items)
    \/ \E status \in StatusSamples, out \in OutSamples, err \in ErrSamples :
          Complete(status, out, err)

Spec == Init /\ [][Next]_vars

\* ------------------------------------------------------------------ claims

\* The call in progress or last finished, the completed child and the outcome.
Finished(mode) == pc = "done" /\ cur[1].mode = mode

\* The exit code the OS reports, or the default for the success flag.
ReportedOrDefault(status) ==
    IF status % 128 = 0 THEN (status \div 256) % 256
    ELSE IF status = 0 THEN 0 ELSE 1

\* The text of captured bytes under the lossy policy: the decoded text, or
\* the empty string when the bytes are not valid UTF-8.
Lossy(bytes) == IF from_utf8(bytes) = <<>> THEN <<>> ELSE from_utf8(bytes)[1]

\* C1: Git::run returns Success with the exit code and Some(stdout) exactly
\* when the OS reports the child successful, and otherwise Failure with the
\* exit code and both stdout and stderr present (Some, never None).
C1_RunCaptured ==
    Finished("run") =>
        LET o == outcome[1]
            c == child[1]
        IN /\ o.tag = "Ok" <=> success(c.status)
           /\ o.tag = "Err" <=> ~success(c.status)
           /\ code(o) = ReportedOrDefault(c.status)
           /\ stdout(o) # <<>>
           /\ o.tag = "Err" => o.stderr # <<>> /\ stderr(o) # <<>>

\* A failed captured run whose child wrote nothing to standard error: stderr
\* is Some("") and not None.
C1_Witness ==
    /\ Finished("run")
    /\ ~success(child[1].status)
    /\ child[1].stderr = <<>>
    /\ outcome[1].tag = "Err"
    /\ stderr(outcome[1]) = << <<>> >>
    /\ stdout(outcome[1]) = << <<103>> >>

\* C2: the outcome of Git::stream carries no captured text: stdout and stderr
\* are None in both variants, whatever the child wrote, and the variant is
\* decided by the OS success flag alone.
C2_StreamCapturesNothing ==
    Finished("stream") =>
        LET o == outcome[1]
            c == child[1]
        IN /\ stdout(o) = <<>>
           /\ stderr(o) = <<>>
           /\ o.tag = (IF success(c.status) THEN "Ok" ELSE "Err")

\* A failed streamed call whose child wrote to both streams.
C2_Witness ==
    /\ Finished("stream")
    /\ outcome[1].tag = "Err"
    /\ child[1].stdout = <<103>>
    /\ child[1].stderr = <<101>>

\* C3: in run and stream the stored code is the OS-reported exit code when
\* there is one; with no reported code it is 0 under the success flag and 1
\* otherwise.
C3_ExitCode ==
    pc = "done" =>
        LET o == outcome[1]
            st == child[1].status
        IN /\ code_of(st) # <<>> => code(o) = code_of(st)[1]
           /\ code_of(st) = <<>> /\ success(st) => code(o) = 0
           /\ code_of(st) = <<>> /\ ~success(st) => code(o) = 1

\* A streamed call whose child was killed by a signal: no code is reported
\* and the outcome carries 1.
C3_Witness ==
    /\ Finished("stream")
    /\ code_of(child[1].status) = <<>>
    /\ code(outcome[1]) = 1

\* C4: every Failure produced by run or stream carries a non-zero code.
C4_FailureCodeNonZero ==
    pc = "done" /\ failed(outcome[1]) => code(outcome[1]) # 0

\* A captured run whose child was killed by a signal: a Failure with the
\* default code.
C4_Witness ==
    /\ Finished("run")
    /\ failed(outcome[1])
    /\ code_of(child[1].status) = <<>>
    /\ code(outcome[1]) = 1

\* C5: when the program cannot be launched, the call produces no Outcome and
\* the caller terminates abruptly: nothing happens after the panic.
C5_SpawnErrorPanics ==
    /\ [](cur # <<>> /\ spawned = 0 => pc = "panicked" /\ outcome = <<>>)
    /\ [](outcome # <<>> => spawned = 1 /\ pc = "done")
    /\ [][pc # "panicked"]_vars

\* A captured run that could not be launched.
C5_Witness ==
    /\ pc = "panicked"
    /\ cur[1].mode = "run"
    /\ spawned = 0
    /\ outcome = <<>>

\* C6: in run, a stream whose bytes are not valid text is reported as the
\* empty string (present), and the variant, the code and the other stream are
\* what the status and the other stream's bytes alone determine.
C6_DecodeFailure ==
    Finished("run") =>
        LET o == outcome[1]
            c == child[1]
        IN /\ stdout(o) = << Lossy(c.stdout) >>
           /\ from_utf8(c.stdout) = <<>> => stdout(o) = << <<>> >>
           /\ o.tag = (IF success(c.status) THEN "Ok" ELSE "Err")
           /\ code(o) = ReportedOrDefault(c.status)
           /\ o.tag = "Err" => stderr(o) = << Lossy(c.stderr) >>
           /\ o.tag = "Err" /\ from_utf8(c.stderr) = <<>>
                 => stderr(o) = << <<>> >>

\* A successful captured run whose standard output is not valid UTF-8: still
\* Success, code 0, stdout Some("").
C6_Witness ==
    /\ Finished("run")
    /\ child[1].stdout = <<255>>
    /\ child[1].status = 0
    /\ outcome[1].tag = "Ok"
    /\ code(outcome[1]) = 0
    /\ stdout(outcome[1]) = << <<>> >>

\* A failed captured run whose standard error is not valid UTF-8 while its
\* standard output is: stderr Some(""), stdout decoded.
C6_WitnessStderr ==
    /\ Finished("run")
    /\ child[1].stderr = <<195>>
    /\ child[1].stdout = <<195, 169>>
    /\ outcome[1].tag = "Err"
    /\ stderr(outcome[1]) = << <<>> >>
    /\ stdout(outcome[1]) = << <<233>> >>

C8_FailedIffFailure ==
    pc = "done" =>
        /\ failed(outcome[1]) <=> outcome[1].tag = "Err"
        /\ failed(outcome[1]) <=> ~success(child[1].status)

\* A call whose child exited with status 2: failed holds.
C8_Witness ==
    /\ pc = "done"
    /\ failed(outcome[1])
    /\ child[1].status = 2 * 256

\* C9: a call goes from running to completed in one step, to Success or
\* Failure; it spawns one child, never a second; and the Outcome, once built,
\* stays as it is while the caller goes on.
C9_TwoStateCall ==
    /\ [](pc = "running" => spawned = 1 /\ outcome = <<>>)
    /\ [](pc = "done" => spawned = 1 /\ outcome # <<>>
                         /\ outcome[1].tag \in {"Ok", "Err"})
    /\ [][ /\ pc = "running" => pc' = "done" /\ cur' = cur
           /\ cur' = cur => spawned' = spawned
           /\ (outcome # <<>> /\ cur' = cur) => outcome' = outcome ]_vars

\* A completed direct run, with Git values built around it: the outcome is
\* there, from the one child spawned.
C9_Witness ==
    /\ pc = "done"
    /\ spawned = 1
    /\ outcome # <<>>
    /\ outcome[1].tag = "Err"
    /\ Len(log) = 1
    /\ log[1].entry = "B"
    /\ \A g \in GitIds : git[g] # <<>>

\* C10: Git::new stores the items' strings in order, run and stream leave
\* them as stored, and every call on a Git value invokes "git" with exactly
\* the arguments that value was built from.
C10_ArgumentsStoredAndPassed ==
    /\ [](\A g \in GitIds : git[g] # <<>> =>
            /\ Len(git[g][1].command) = Len(given[g][1])
            /\ \A k \in 1 .. Len(given[g][1]) :
                  /\ git[g][1].command[k] = to_string(given[g][1][k])
                  /\ given[g][1][k].t = "str"
                        => git[g][1].command[k] = given[g][1][k].v)
    /\ [](\A i \in 1 .. Len(log) : log[i].entry = "A" =>
            /\ log[i].program = "git"
            /\ log[i].args = git[log[i].g][1].command
            /\ log[i].items = given[log[i].g][1])
    /\ [][\A g \in GitIds : git[g] # <<>> =>
            (git'[g] = git[g] /\ given'[g] = given[g])]_vars

\* Two Git values built from different argument lists, each called once: each
\* invocation carries its own value's arguments.
C10_Witness ==
    /\ Len(log) = 2
    /\ log[1].entry = "A" /\ log[2].entry = "A"
    /\ log[1].g = "g1" /\ log[2].g = "g2"
    /\ log[1].args = << TokLog, TokShortstat >>
    /\ log[2].args = << <<45, 49>>, <<50, 48>> >>
    /\ git["g1"][1].command # git["g2"][1].command

====
